---- MODULE Spec2Model ----
(***************************************************************************)
(* Model of renamer.py: process_task (rename images by age/date, with the  *)
(* per-date counter and the collision probe), the rename log               *)
(* rename_log.csv, and undo_renames (reverse replay of the log).           *)
(*                                                                         *)
(* Strings are sequences of character codes, so that formatting, the       *)
(* comma split of a log line and the lexicographic sort are computed as    *)
(* the code computes them.  A path is the sequence of its components       *)
(* below the task's root directory.                                        *)
(***************************************************************************)
EXTENDS Integers, Sequences, FiniteSets, TLC

\* ------------------------------------------------------------------ bounds
MaxFiles == 3      \* files on disk in the initial state
MaxOps   == 2      \* operations (process_task / undo_renames) per behaviour
MaxFail  == 1      \* injected filesystem failures per behaviour

\* --------------------------------------------------------------- constants
DAY_MONTH_THRESHOLD == 28
Comma == 44

\* ----------------------------------------------------------------- strings
Str_days   == <<100, 97, 121, 115>>
Str_months == <<109, 111, 110, 116, 104, 115>>
Str_years  == <<121, 101, 97, 114, 115>>

\* {'.jpg', '.jpeg', '.png', '.tiff', '.heic', '.bmp', '.nef', '.dng'}
ALLOWED_EXTS ==
    { <<46, 106, 112, 103>>, <<46, 106, 112, 101, 103>>, <<46, 112, 110, 103>>,
      <<46, 116, 105, 102, 102>>, <<46, 104, 101, 105, 99>>, <<46, 98, 109, 112>>,
      <<46, 110, 101, 102>>, <<46, 100, 110, 103>> }

\* "timestamp,old_filename,new_filename"
LogHeader ==
    <<116, 105, 109, 101, 115, 116, 97, 109, 112, 44, 111, 108, 100, 95, 102,
      105, 108, 101, 110, 97, 109, 101, 44, 110, 101, 119, 95, 102, 105, 108,
      101, 110, 97, 109, 101>>

\* datetime.now().isoformat(): a string without commas; its value is not used
Timestamp == <<116>>

\* s < t for Python strings (code point order, a proper prefix is smaller)
StrLess(s, t) ==
    \E i \in 1..(Len(s) + 1) :
        /\ i <= Len(t)
        /\ \A j \in 1..(i - 1) : s[j] = t[j]
        /\ (i = Len(s) + 1 \/ s[i] < t[i])

\* str.lower() on ASCII
Lower(s) == [i \in 1..Len(s) |-> IF s[i] \in 65..90 THEN s[i] + 32 ELSE s[i]]

\* name.replace(' ', '_')
ReplaceSpaces(s) == [i \in 1..Len(s) |-> IF s[i] = 32 THEN 95 ELSE s[i]]

\* PurePath.suffix: from the last dot, unless the name has none, starts with
\* its only dot or ends with a dot
Suffix(nm) ==
    LET dots == {i \in 1..Len(nm) : nm[i] = 46}
        last == CHOOSE i \in dots : \A j \in dots : j <= i
    IN  IF dots = {} THEN <<>>
        ELSE IF last = 1 \/ last = Len(nm) THEN <<>>
        ELSE SubSeq(nm, last, Len(nm))

RECURSIVE Digits(_)
Digits(n) == IF n < 10 THEN <<48 + n>> ELSE Digits(n \div 10) \o <<48 + (n % 10)>>

RECURSIVE Zeros(_)
Zeros(k) == IF k <= 0 THEN <<>> ELSE <<48>> \o Zeros(k - 1)

\* f"{n:0wd}" for n >= 0: at least w digits, never truncated
Pad(n, w) == Zeros(w - Len(Digits(n))) \o Digits(n)

\* str.split(','): the fields between the commas
RECURSIVE Split(_)
Split(s) ==
    LET cs == {i \in 1..Len(s) : s[i] = Comma}
        c  == CHOOSE i \in cs : \A j \in cs : i <= j
    IN  IF cs = {} THEN <<s>>
        ELSE <<SubSeq(s, 1, c - 1)>> \o Split(SubSeq(s, c + 1, Len(s)))

\* str.split(',', 2): at most two splits, the rest stays in the last field
Split2(s) ==
    LET cs == {i \in 1..Len(s) : s[i] = Comma}
        c1 == CHOOSE i \in cs : \A j \in cs : i <= j
        r  == SubSeq(s, c1 + 1, Len(s))
        ds == {i \in 1..Len(r) : r[i] = Comma}
        c2 == CHOOSE i \in ds : \A j \in ds : i <= j
    IN  IF cs = {} THEN <<s>>
        ELSE IF ds = {} THEN <<SubSeq(s, 1, c1 - 1), r>>
        ELSE <<SubSeq(s, 1, c1 - 1), SubSeq(r, 1, c2 - 1), SubSeq(r, c2 + 1, Len(r))>>

\* f"{timestamp},{old_name},{new_name}"
LogLine(old, new) == Timestamp \o <<Comma>> \o old \o <<Comma>> \o new

\* ------------------------------------------------------------------- dates
MkDate(y, m, d) == [year |-> y, month |-> m, day |-> d]

IsLeap(y) == y % 4 = 0 /\ (y % 100 # 0 \/ y % 400 = 0)

DaysBeforeMonth(y, m) ==
    LET cum == <<0, 31, 59, 90, 120, 151, 181, 212, 243, 273, 304, 334>>
    IN  cum[m] + (IF m > 2 /\ IsLeap(y) THEN 1 ELSE 0)

\* date.toordinal(): proleptic Gregorian day number
Ordinal(d) ==
    LET y == d.year - 1
    IN  y * 365 + (y \div 4) - (y \div 100) + (y \div 400)
          + DaysBeforeMonth(d.year, d.month) + d.day

DateLess(a, b) == Ordinal(a) < Ordinal(b)

\* dt.strftime('%Y%m%d')
DateStr(d) == Pad(d.year, 4) \o Pad(d.month, 2) \o Pad(d.day, 2)

\* faulty variant: no floor of one day
calculate_age_full_NoFloor(birth, photo) ==
    IF DateLess(photo, birth) THEN Pad(1, 2) \o Str_days
    ELSE
      LET days_diff == Ordinal(photo) - Ordinal(birth)
          days      == days_diff
          months0   == (photo.year - birth.year) * 12 + (photo.month - birth.month)
          months    == IF photo.day < birth.day THEN months0 - 1 ELSE months0
          years     == months \div 12
      IN  IF days_diff < DAY_MONTH_THRESHOLD THEN Pad(days, 2) \o Str_days
          ELSE IF months < 12 THEN Pad(months, 2) \o Str_months
          ELSE Pad(years, 2) \o Str_years

\* faulty variant: the month is counted before its day is reached
calculate_age_full_NoDayAdjust(birth, photo) ==
    IF DateLess(photo, birth) THEN Pad(1, 2) \o Str_days
    ELSE
      LET days_diff == Ordinal(photo) - Ordinal(birth)
          days      == IF days_diff > 1 THEN days_diff ELSE 1
          months0   == (photo.year - birth.year) * 12 + (photo.month - birth.month)
          months    == months0
          years     == months \div 12
      IN  IF days_diff < DAY_MONTH_THRESHOLD THEN Pad(days, 2) \o Str_days
          ELSE IF months < 12 THEN Pad(months, 2) \o Str_months
          ELSE Pad(years, 2) \o Str_years

\* lines 93-112: the age label of a photo
calculate_age_full(birth, photo) ==
    IF DateLess(photo, birth) THEN Pad(1, 2) \o Str_days
    ELSE
      LET days_diff == Ordinal(photo) - Ordinal(birth)
          days      == IF days_diff > 1 THEN days_diff ELSE 1
          months0   == (photo.year - birth.year) * 12 + (photo.month - birth.month)
          months    == IF photo.day < birth.day THEN months0 - 1 ELSE months0
          years     == months \div 12
      IN  IF days_diff < DAY_MONTH_THRESHOLD THEN Pad(days, 2) \o Str_days
          ELSE IF months < 12 THEN Pad(months, 2) \o Str_months
          ELSE Pad(years, 2) \o Str_years

\* ------------------------------------------------------------------- paths
\* A path is the sequence of its components below the root directory.
Parent(p)       == SubSeq(p, 1, Len(p) - 1)
BaseName(p)     == p[Len(p)]
WithName(p, nm) == Parent(p) \o <<nm>>

\* Path.__lt__: component-wise comparison of the parts
PathLess(p, q) ==
    \E i \in 1..(Len(p) + 1) :
        /\ i <= Len(q)
        /\ \A j \in 1..(i - 1) : p[j] = q[j]
        /\ (i = Len(p) + 1 \/ StrLess(p[i], q[i]))

RECURSIVE SortedPaths(_)
SortedPaths(S) ==
    IF S = {} THEN <<>>
    ELSE LET m == CHOOSE x \in S : \A y \in S \ {x} : PathLess(x, y)
         IN  <<m>> \o SortedPaths(S \ {m})

RECURSIVE SortedDates(_)
SortedDates(S) ==
    IF S = {} THEN <<>>
    ELSE LET m == CHOOSE x \in S : \A y \in S \ {x} : DateLess(x, y)
         IN  <<m>> \o SortedDates(S \ {m})

Reverse(s) == [i \in 1..Len(s) |-> s[Len(s) + 1 - i]]

\* -------------------------------------------------------------- file system
\* disk: path -> file, a file being its content identity and capture date.
Exists(d, p) == p \in DOMAIN d

\* Path.rename (os.rename): the target is replaced when it exists
Rename(d, p, q) ==
    IF p = q THEN d
    ELSE [x \in (DOMAIN d \ {p}) \cup {q} |-> IF x = q THEN d[p] ELSE d[x]]

\* get_exif_date(img): the capture date the external reader yields for the file
get_exif_date(d, p) == d[p].dt

gather_images(d, rec) ==
    SortedPaths({p \in DOMAIN d :
                    /\ rec \/ Len(p) = 1
                    /\ Lower(Suffix(BaseName(p))) \in ALLOWED_EXTS})

Range(s) == {s[i] : i \in 1..Len(s)}

\* groups[dt] for the images gathered
Group(d, imgs, dt) == {p \in Range(imgs) : get_exif_date(d, p) = dt}

\* faulty variant: a bucket is visited by base name first, whatever the directory
VisitOrderByName(d, imgs, dts) ==
    LET G == {p \in Range(imgs) : \E i \in 1..Len(dts) : get_exif_date(d, p) = dts[i]}
        Before(p, q) ==
            \/ DateLess(get_exif_date(d, p), get_exif_date(d, q))
            \/ /\ get_exif_date(d, p) = get_exif_date(d, q)
               /\ \/ StrLess(BaseName(p), BaseName(q))
                  \/ BaseName(p) = BaseName(q) /\ PathLess(p, q)
        s == CHOOSE f \in [1..Cardinality(G) -> G] :
                 \A a, b \in 1..Cardinality(G) : a < b => Before(f[a], f[b])
    IN  [i \in 1..Cardinality(G) |-> [dt |-> get_exif_date(d, s[i]), img |-> s[i]]]

\* for dt in sorted(groups): for img in sorted(groups[dt]): the visiting order
RECURSIVE VisitOrder(_, _, _)
VisitOrder(d, imgs, dts) ==
    IF dts = <<>> THEN <<>>
    ELSE LET ps == SortedPaths(Group(d, imgs, Head(dts)))
         IN  [i \in 1..Len(ps) |-> [dt |-> Head(dts), img |-> ps[i]]]
               \o VisitOrder(d, imgs, Tail(dts))

BuildQueue(d, imgs) ==
    VisitOrder(d, imgs, SortedDates({get_exif_date(d, p) : p \in Range(imgs)}))

\* ------------------------------------------------------------------ the log
NoLog == [exists |-> FALSE, lines |-> <<>>]

\* lines 168-176: the old_filename of every well-formed line after the header
AlreadyRenamed(lg) ==
    IF ~lg.exists THEN {}
    ELSE {Split(lg.lines[i])[2] :
             i \in {j \in 2..Len(lg.lines) : Len(Split(lg.lines[j])) = 3}}

\* faulty variant: the header is written in a dry run too
LogAtStartAlways(lg, dry) ==
    IF ~lg.exists THEN [exists |-> TRUE, lines |-> <<LogHeader>>] ELSE lg

\* lines 178-179: the header is written when the log is absent and not dry_run
LogAtStart(lg, dry) ==
    IF ~lg.exists /\ ~dry THEN [exists |-> TRUE, lines |-> <<LogHeader>>] ELSE lg

\* open(log_file, "a").write(line + "\n"); creates the file when it is absent
AppendLog(lg, line) == [exists |-> TRUE, lines |-> Append(lg.lines, line)]

\* ------------------------------------------------------------ task parameters
Name      == <<109, 32, 107>>          \* "m k"
BirthDate == MkDate(2023, 1, 1)

NewName(dt, n, old_name) ==
    ReplaceSpaces(Name) \o <<95>> \o DateStr(dt) \o <<95>>
      \o calculate_age_full(BirthDate, dt) \o <<95>> \o Pad(n, 3)
      \o Lower(Suffix(old_name))

\* faulty variant: the file's own name counts as taken
RECURSIVE ProbeNoSelf(_, _, _, _)
ProbeNoSelf(d, img, dt, temp) ==
    LET new_p == WithName(img, NewName(dt, temp, BaseName(img)))
    IN  IF Exists(d, new_p)
        THEN ProbeNoSelf(d, img, dt, temp + 1)
        ELSE temp

\* lines 208-219: the first temp >= counter whose name is free or the file's own
RECURSIVE Probe(_, _, _, _)
Probe(d, img, dt, temp) ==
    LET new_p == WithName(img, NewName(dt, temp, BaseName(img)))
    IN  IF Exists(d, new_p) /\ BaseName(new_p) # BaseName(img)
        THEN Probe(d, img, dt, temp + 1)
        ELSE temp

\* ---------------------------------------------------------------- universe
D1 == MkDate(2023, 1, 20)
D2 == MkDate(2023, 3, 1)
Dates == {D1, D2}

File_a  == <<97, 46, 106, 112, 103>>             \* "a.jpg"
File_bc == <<98, 44, 99, 46, 106, 112, 103>>     \* "b,c.jpg"
File_z  == <<122, 46, 74, 80, 71>>               \* "z.JPG"
SubDir  == <<115>>                               \* "s"

\* files that carry a name of the target pattern before the first run
Target(n) == NewName(D1, n, File_a)

\* the candidate files of the initial disk, each with its possible capture dates
CandDates ==
    [p \in {<<File_bc>>, <<File_z>>, <<Target(1)>>, <<Target(2)>>,
            <<SubDir, File_a>>}
       |-> IF p = <<Target(1)>> THEN Dates ELSE {D1}]
CandPaths == DOMAIN CandDates

\* answers to the confirmation prompt: "Y", "n", "yes"
Responses == {<<89>>, <<110>>, <<121, 101, 115>>}

\* -------------------------------------------------------------------- state
VARIABLES
    disk,             \* path -> [id, dt]
    log,              \* rename_log.csv: [exists, lines]
    recursive,        \* the task's recursive flag
    pc,               \* "idle" | "proc" | "log" | "undo"
    dry_run,          \* process_task: dry_run of the running task
    already_renamed,  \* process_task: old names read from the log
    queue,            \* process_task: the (dt, img) still to visit, in order
    cur_dt,           \* process_task: date bucket of the last visited image
    counter,          \* process_task: the bucket counter
    pending,          \* process_task: the rename done and not yet logged
    entries,          \* undo_renames: log lines still to replay
    out,              \* lines printed by the running operation
    op,               \* the running operation and the state it started from
    hist,             \* the completed operations
    renamed,          \* renames carried out by process_task since the log exists
    nfail,            \* filesystem failures so far
    age_birth,        \* calculate_age_full: the birth argument
    age_photo,        \* calculate_age_full: the photo argument
    age_label         \* calculate_age_full: the value returned

age_vars == <<age_birth, age_photo, age_label>>

vars == <<disk, log, recursive, pc, dry_run, already_renamed, queue, cur_dt,
          counter, pending, entries, out, op, hist, renamed, nfail,
          age_birth, age_photo, age_label>>

NoDate == MkDate(0, 0, 0)
NoOp   == [kind |-> "none"]

Init ==
    /\ \E S \in SUBSET CandPaths :
         /\ Cardinality(S) <= MaxFiles
         /\ \E dts \in [S -> Dates] :
              /\ \A p \in S : dts[p] \in CandDates[p]
              /\ disk = [p \in S |-> [id |-> p, dt |-> dts[p]]]
    /\ log = NoLog
    /\ recursive \in BOOLEAN
    /\ pc = "idle"
    /\ dry_run = FALSE
    /\ already_renamed = {}
    /\ queue = <<>>
    /\ cur_dt = NoDate
    /\ counter = 1
    /\ pending = <<>>
    /\ entries = <<>>
    /\ out = <<>>
    /\ op = NoOp
    /\ hist = <<>>
    /\ renamed = <<>>
    /\ nfail = 0
    /\ age_birth = BirthDate
    /\ age_photo = D1
    /\ age_label = <<>>

\* the record of an operation that ends in this step
Done(o, d, lg, nf, o2) ==
    [kind |-> o.kind, dry |-> o.dry, force |-> o.force, resp |-> o.resp,
     pre_disk |-> o.pre_disk, pre_log |-> o.pre_log, pre_fail |-> o.pre_fail,
     post_disk |-> d, post_log |-> lg, post_fail |-> nf, out |-> o2]

OpRec(kind, dry, force, resp) ==
    [kind |-> kind, dry |-> dry, force |-> force, resp |-> resp,
     pre_disk |-> disk, pre_log |-> log, pre_fail |-> nfail]

\* ------------------------------------------------------------- process_task
\* lines 151-186: gather, read the log, write the header, group by date
StartTask(dry) ==
    /\ UNCHANGED age_vars
    /\ pc = "idle"
    /\ Len(hist) < MaxOps
    /\ LET images == gather_images(disk, recursive)
           o      == OpRec("proc", dry, FALSE, <<>>)
       IN  IF images = <<>>
           THEN \* "No images found": return False
                /\ hist' = Append(hist, Done(o, disk, log, nfail, <<[kind |-> "NOIMG"]>>))
                /\ UNCHANGED <<disk, log, recursive, pc, dry_run, already_renamed,
                               queue, cur_dt, counter, pending, entries, out, op,
                               renamed, nfail>>
           ELSE /\ already_renamed' = AlreadyRenamed(log)
                /\ log' = LogAtStart(log, dry)
                /\ queue' = BuildQueue(disk, images)
                /\ dry_run' = dry
                /\ cur_dt' = NoDate
                /\ counter' = 1
                /\ out' = <<>>
                /\ op' = o
                /\ pc' = "proc"
                /\ UNCHANGED <<disk, recursive, pending, entries, hist, renamed, nfail>>

\* faulty variant: the counter runs on from one bucket into the next
BucketCounterNoReset == counter

\* line 189: counter = 1 at the start of each bucket
BucketCounter == IF Head(queue).dt = cur_dt THEN counter ELSE 1

\* faulty variant: a skipped file takes a counter slot
CounterAfterSkipNext(c) == c + 1

\* line 194: continue, the counter is left as it is
CounterAfterSkip(c) == c

\* lines 191-194: the original name was logged before
ProcSkip ==
    /\ UNCHANGED age_vars
    /\ pc = "proc" /\ queue # <<>>
    /\ LET h == Head(queue)
           old_name == BaseName(h.img)
       IN  /\ old_name \in already_renamed
           /\ out' = Append(out, [kind |-> "SKIP", img |-> h.img, dt |-> h.dt,
                                  old |-> old_name])
           /\ queue' = Tail(queue)
           /\ cur_dt' = h.dt
           /\ counter' = CounterAfterSkip(BucketCounter)
    /\ UNCHANGED <<disk, log, recursive, pc, dry_run, already_renamed, pending,
                   entries, op, hist, renamed, nfail>>

\* the line printed for a file that was not skipped
Event(kind, h, start, temp) ==
    [kind |-> kind, img |-> h.img, dt |-> h.dt, old |-> BaseName(h.img),
     new |-> NewName(h.dt, temp, BaseName(h.img)), start |-> start, id |-> temp]

\* lines 195-221, 230: dry run, the planned name is printed
ProcDryRun ==
    /\ UNCHANGED age_vars
    /\ pc = "proc" /\ queue # <<>>
    /\ dry_run
    /\ LET h == Head(queue)
           c == BucketCounter
           temp == Probe(disk, h.img, h.dt, c)
       IN  /\ BaseName(h.img) \notin already_renamed
           /\ out' = Append(out, Event("DRY", h, c, temp))
           /\ queue' = Tail(queue)
           /\ cur_dt' = h.dt
           /\ counter' = c + 1
    /\ UNCHANGED <<disk, log, recursive, pc, dry_run, already_renamed, pending,
                   entries, op, hist, renamed, nfail>>

\* faulty variant: the log line is written whether or not the rename succeeded
ProcRenameLogAlways(ok) ==
    /\ UNCHANGED age_vars
    /\ pc = "proc" /\ queue # <<>>
    /\ ~dry_run
    /\ LET h == Head(queue)
           c == BucketCounter
           temp == Probe(disk, h.img, h.dt, c)
           new_name == NewName(h.dt, temp, BaseName(h.img))
       IN  /\ BaseName(h.img) \notin already_renamed
           /\ cur_dt' = h.dt
           /\ IF ok
              THEN /\ disk' = Rename(disk, h.img, WithName(h.img, new_name))
                   /\ renamed' = Append(renamed, <<BaseName(h.img), new_name>>)
                   /\ pending' = Event("REN", h, c, temp)
                   /\ pc' = "log"
                   /\ counter' = c
                   /\ UNCHANGED <<queue, out, nfail, log>>
              ELSE /\ nfail < MaxFail
                   /\ nfail' = nfail + 1
                   /\ out' = Append(out, Event("FAIL", h, c, temp))
                   /\ queue' = Tail(queue)
                   /\ counter' = c + 1
                   /\ log' = AppendLog(log, LogLine(BaseName(h.img), new_name))
                   /\ UNCHANGED <<disk, renamed, pending, pc>>
    /\ UNCHANGED <<recursive, dry_run, already_renamed, entries, op, hist>>

\* faulty variant: a failed rename ends the task's loop
ProcRenameAbort(ok) ==
    /\ UNCHANGED age_vars
    /\ pc = "proc" /\ queue # <<>>
    /\ ~dry_run
    /\ LET h == Head(queue)
           c == BucketCounter
           temp == Probe(disk, h.img, h.dt, c)
           new_name == NewName(h.dt, temp, BaseName(h.img))
       IN  /\ BaseName(h.img) \notin already_renamed
           /\ cur_dt' = h.dt
           /\ IF ok
              THEN /\ disk' = Rename(disk, h.img, WithName(h.img, new_name))
                   /\ renamed' = Append(renamed, <<BaseName(h.img), new_name>>)
                   /\ pending' = Event("REN", h, c, temp)
                   /\ pc' = "log"
                   /\ counter' = c
                   /\ UNCHANGED <<queue, out, nfail, log>>
              ELSE /\ nfail < MaxFail
                   /\ nfail' = nfail + 1
                   /\ out' = Append(out, Event("FAIL", h, c, temp))
                   /\ queue' = <<>>
                   /\ counter' = c + 1
                   /\ UNCHANGED <<disk, renamed, pending, pc, log>>
    /\ UNCHANGED <<recursive, dry_run, already_renamed, entries, op, hist>>

\* lines 195-224, 228-230: img.rename(new_p) succeeds (ok) or raises
ProcRename(ok) ==
    /\ UNCHANGED age_vars
    /\ pc = "proc" /\ queue # <<>>
    /\ ~dry_run
    /\ LET h == Head(queue)
           c == BucketCounter
           temp == Probe(disk, h.img, h.dt, c)
           new_name == NewName(h.dt, temp, BaseName(h.img))
       IN  /\ BaseName(h.img) \notin already_renamed
           /\ cur_dt' = h.dt
           /\ IF ok
              THEN /\ disk' = Rename(disk, h.img, WithName(h.img, new_name))
                   /\ renamed' = Append(renamed, <<BaseName(h.img), new_name>>)
                   /\ pending' = Event("REN", h, c, temp)
                   /\ pc' = "log"
                   /\ counter' = c
                   /\ UNCHANGED <<queue, out, nfail, log>>
              ELSE /\ nfail < MaxFail
                   /\ nfail' = nfail + 1
                   /\ out' = Append(out, Event("FAIL", h, c, temp))
                   /\ queue' = Tail(queue)
                   /\ counter' = c + 1
                   /\ UNCHANGED <<disk, renamed, pending, pc, log>>
    /\ UNCHANGED <<recursive, dry_run, already_renamed, entries, op, hist>>

\* lines 225-227, 230: "Renamed" is printed and the line appended to the log
ProcLog ==
    /\ UNCHANGED age_vars
    /\ pc = "log"
    /\ log' = AppendLog(log, LogLine(pending.old, pending.new))
    /\ out' = Append(out, pending)
    /\ pending' = <<>>
    /\ queue' = Tail(queue)
    /\ counter' = counter + 1
    /\ pc' = "proc"
    /\ UNCHANGED <<disk, recursive, dry_run, already_renamed, cur_dt, entries,
                   op, hist, renamed, nfail>>

\* line 232: return True
EndTask ==
    /\ UNCHANGED age_vars
    /\ pc = "proc" /\ queue = <<>>
    /\ hist' = Append(hist, Done(op, disk, log, nfail, out))
    /\ pc' = "idle"
    /\ op' = NoOp
    /\ out' = <<>>
    /\ UNCHANGED <<disk, log, recursive, dry_run, already_renamed, queue, cur_dt,
                   counter, pending, entries, renamed, nfail>>

\* ------------------------------------------------------------- undo_renames
\* faulty variant: any answer that starts with y confirms
ConfirmedPrefix(force, resp) == force \/ (resp # <<>> /\ Lower(resp)[1] = 121)

\* lines 129-133: the replay goes on when forced or when the answer is y / Y
Confirmed(force, resp) == force \/ Lower(resp) = <<121>>

\* faulty variant: the log is replayed oldest first
ReplayOrderForward(lines) == lines

\* line 135: for line in reversed(lines)
ReplayOrder(lines) == Reverse(lines)

\* faulty variant: the old path is not looked at
UndoCondNoOld(d, old_p, new_p) == Exists(d, new_p)

\* line 139: new_p.exists() and not old_p.exists()
UndoCond(d, old_p, new_p) == Exists(d, new_p) /\ ~Exists(d, old_p)

\* faulty variant: a failed revert ends the loop
RestAfterBreak(es, failed) == IF failed THEN <<>> ELSE Tail(es)

\* lines 135, 143-144: the exception is caught inside the loop, which goes on
RestAfter(es, failed) == Tail(es)

\* lines 125-134: no log, cancelled, or the entries are read
StartUndo(force, resp) ==
    /\ UNCHANGED age_vars
    /\ pc = "idle"
    /\ Len(hist) < MaxOps
    /\ LET o == OpRec("undo", FALSE, force, resp)
       IN  IF ~log.exists
           THEN /\ hist' = Append(hist, Done(o, disk, log, nfail, <<[kind |-> "NOLOG"]>>))
                /\ UNCHANGED <<pc, entries, op, out>>
           ELSE IF ~Confirmed(force, resp)
           THEN /\ hist' = Append(hist, Done(o, disk, log, nfail, <<[kind |-> "CANCEL"]>>))
                /\ UNCHANGED <<pc, entries, op, out>>
           ELSE /\ entries' = ReplayOrder(Tail(log.lines))
                /\ pc' = "undo"
                /\ op' = o
                /\ out' = <<>>
                /\ UNCHANGED hist
    /\ UNCHANGED <<disk, log, recursive, dry_run, already_renamed, queue, cur_dt,
                   counter, pending, renamed, nfail>>

\* lines 135-144: one log entry; new_p.rename(old_p) succeeds (ok) or raises
UndoEntry(ok) ==
    /\ UNCHANGED age_vars
    /\ pc = "undo" /\ entries # <<>>
    /\ LET f     == Split2(Head(entries))
           old_p == <<f[2]>>
           new_p == <<f[3]>>
           ev(k) == [kind |-> k, old |-> f[2], new |-> f[3]]
       IN  /\ entries' = RestAfter(entries, UndoCond(disk, old_p, new_p) /\ ~ok)
           /\ IF UndoCond(disk, old_p, new_p)
              THEN IF ok
                   THEN /\ disk' = Rename(disk, new_p, old_p)
                        /\ out' = Append(out, ev("REV"))
                        /\ UNCHANGED nfail
                   ELSE /\ nfail < MaxFail
                        /\ nfail' = nfail + 1
                        /\ out' = Append(out, ev("REVFAIL"))
                        /\ UNCHANGED disk
              ELSE /\ ok
                   /\ out' = Append(out, ev("PASS"))
                   /\ UNCHANGED <<disk, nfail>>
    /\ UNCHANGED <<log, recursive, pc, dry_run, already_renamed, queue, cur_dt,
                   counter, pending, op, hist, renamed>>

\* lines 145-149: log_file.unlink() succeeds (ok) or raises
UndoFinish(ok) ==
    /\ UNCHANGED age_vars
    /\ pc = "undo" /\ entries = <<>>
    /\ IF ok
       THEN /\ log' = NoLog
            /\ renamed' = <<>>
            /\ nfail' = nfail
            /\ hist' = Append(hist, Done(op, disk, NoLog, nfail,
                                         Append(out, [kind |-> "RMLOG"])))
       ELSE /\ nfail < MaxFail
            /\ nfail' = nfail + 1
            /\ hist' = Append(hist, Done(op, disk, log, nfail + 1,
                                         Append(out, [kind |-> "RMFAIL"])))
            /\ UNCHANGED <<log, renamed>>
    /\ pc' = "idle"
    /\ op' = NoOp
    /\ out' = <<>>
    /\ UNCHANGED <<disk, recursive, dry_run, already_renamed, queue, cur_dt,
                   counter, pending, entries>>

\* ------------------------------------------------------------ specification
Next ==
    \/ \E dry \in BOOLEAN : StartTask(dry)
    \/ ProcSkip
    \/ ProcDryRun
    \/ \E ok \in BOOLEAN : ProcRename(ok)
    \/ ProcLog
    \/ EndTask
    \/ \E force \in BOOLEAN :
         \E resp \in (IF force THEN {<<>>} ELSE Responses) : StartUndo(force, resp)
    \/ \E ok \in BOOLEAN : UndoEntry(ok)
    \/ \E ok \in BOOLEAN : UndoFinish(ok)

Spec == Init /\ [][Next]_vars

\* ------------------------------------------- calculate_age_full on its own
\* datetime.date: the day exists in the month
DaysInMonth(y, m) ==
    IF m = 2 THEN (IF IsLeap(y) THEN 29 ELSE 28)
    ELSE IF m \in {4, 6, 9, 11} THEN 30 ELSE 31

ValidDates(ys, ms, ds) ==
    {MkDate(y, m, d) : <<y, m, d>> \in
        {t \in ys \X ms \X ds : t[3] <= DaysInMonth(t[1], t[2])}}

\* the birth and photo dates the function is applied to
BirthDates == ValidDates({1923, 2023}, {1, 2, 12}, {1, 15, 31})
PhotoDates == ValidDates({2022, 2023, 2024}, {1, 2, 3, 12}, {1, 14, 15, 28, 31})

AgeInit ==
    /\ age_birth \in BirthDates
    /\ age_photo \in PhotoDates
    /\ age_label = <<>>
    /\ pc = "age"
    /\ disk = <<>>
    /\ log = NoLog
    /\ recursive = FALSE
    /\ dry_run = FALSE
    /\ already_renamed = {}
    /\ queue = <<>>
    /\ cur_dt = NoDate
    /\ counter = 1
    /\ pending = <<>>
    /\ entries = <<>>
    /\ out = <<>>
    /\ op = NoOp
    /\ hist = <<>>
    /\ renamed = <<>>
    /\ nfail = 0

\* line 195: age = calculate_age_full(birth_date, dt)
AgeCall ==
    /\ pc = "age"
    /\ age_label' = calculate_age_full(age_birth, age_photo)
    /\ pc' = "age_done"
    /\ UNCHANGED <<disk, log, recursive, dry_run, already_renamed, queue, cur_dt,
                   counter, pending, entries, out, op, hist, renamed, nfail,
                   age_birth, age_photo>>

AgeNext == AgeCall

AgeSpec == AgeInit /\ [][AgeNext]_vars

\* =================================================================== claims
ProcRuns == {i \in 1..Len(hist) : hist[i].kind = "proc"}
UndoRuns == {i \in 1..Len(hist) : hist[i].kind = "undo"}

\* the files a run handled and did not skip, the printed lines in order
Handled(r) == {i \in 1..Len(r.out) : r.out[i].kind \in {"DRY", "REN", "FAIL"}}
Planned(r) == {i \in 1..Len(r.out) : r.out[i].kind \in {"DRY", "REN"}}
Kinds(r)   == {r.out[i].kind : i \in 1..Len(r.out)}

\* no injected filesystem failure during the operation
Clean(r) == r.post_fail = r.pre_fail

\* C1: undo is a correct inverse.  A live process_task that started without a
\* log and in which every rename succeeded, followed by a forced undo_renames
\* without failure, leaves every file at its original path and no log file.
C1_UndoIsInverse ==
    \A i \in ProcRuns :
        (/\ i + 1 \in UndoRuns
         /\ ~hist[i].dry /\ ~hist[i].pre_log.exists /\ Clean(hist[i])
         /\ hist[i + 1].force /\ Clean(hist[i + 1]))
        => /\ hist[i + 1].post_disk = hist[i].pre_disk
           /\ ~hist[i + 1].post_log.exists

\* C2: idempotent rerun.  A second process_task with the same parameters, the
\* log of the first run present and the disk untouched in between, renames no
\* file, appends no log line and reports [SKIP] for every image it enumerates.
C2_IdempotentRerun ==
    \A i \in ProcRuns :
        (/\ i + 1 \in ProcRuns
         /\ hist[i].dry = hist[i + 1].dry
         /\ hist[i + 1].pre_log.exists
         /\ Clean(hist[i]) /\ Clean(hist[i + 1]))
        => /\ hist[i + 1].post_disk = hist[i + 1].pre_disk
           /\ hist[i + 1].post_log = hist[i + 1].pre_log
           /\ Kinds(hist[i + 1]) \subseteq {"SKIP"}

\* C3: collision avoidance.  In every run, the files of one date bucket that
\* were renamed or planned get pairwise different new names and different IDs.
C3_DistinctNamesInBucket ==
    \A i \in ProcRuns :
        \A j, k \in Planned(hist[i]) :
            (j # k /\ hist[i].out[j].dt = hist[i].out[k].dt)
            => /\ hist[i].out[j].new # hist[i].out[k].new
               /\ hist[i].out[j].id # hist[i].out[k].id

\* C4: within one date bucket the final IDs never decrease along the
\* processing order.
C4_MonotoneIds ==
    \A i \in ProcRuns :
        \A j, k \in Planned(hist[i]) :
            (j < k /\ hist[i].out[j].dt = hist[i].out[k].dt)
            => hist[i].out[j].id <= hist[i].out[k].id

\* the images a run enumerates that are not already renamed
ToHandle(r) ==
    {p \in Range(gather_images(r.pre_disk, recursive)) :
        BaseName(p) \notin AlreadyRenamed(r.pre_log)}

\* the log lines a run appended after the header
NewLines(r) ==
    SubSeq(r.post_log.lines,
           (IF r.pre_log.exists THEN Len(r.pre_log.lines) ELSE 1) + 1,
           Len(r.post_log.lines))

\* C5: a dry run changes nothing.  No rename, no log created or written, at
\* every step of the run and at its end, and exactly one [DRY-RUN] line per
\* enumerated image that is not already renamed.
\* (a record is appended to hist in the step that returns to idle and is not
\* changed afterwards, so the newest record is looked at in the idle states)
C5_DryRunChangesNothing ==
    /\ (pc \in {"proc", "log"} /\ dry_run)
         => (disk = op.pre_disk /\ log = op.pre_log)
    /\ (pc = "idle" /\ hist # <<>> /\ hist[Len(hist)].kind = "proc") =>
         LET r == hist[Len(hist)]
             dry_lines == {j \in 1..Len(r.out) : r.out[j].kind = "DRY"}
         IN  r.dry =>
               /\ r.post_disk = r.pre_disk
               /\ r.post_log = r.pre_log
               /\ Kinds(r) \subseteq {"DRY", "SKIP", "NOIMG"}
               /\ {r.out[j].img : j \in dry_lines} = ToHandle(r)
               /\ Cardinality(dry_lines) = Cardinality(ToHandle(r))

C5_Witness ==
    \E i \in ProcRuns :
        /\ hist[i].dry /\ ~hist[i].pre_log.exists
        /\ Cardinality(Planned(hist[i])) = 2

\* C6: the log reflects only completed renames.  In every state the lines
\* after the header are, in order, the first renames carried out since the
\* log exists: a line is never ahead of its rename, a failed rename has none.
C6_LogOnlyCompletedRenames ==
    log.exists =>
        LET n == Len(log.lines) - 1
        IN  /\ n <= Len(renamed)
            /\ \A i \in 1..n :
                 log.lines[i + 1] = LogLine(renamed[i][1], renamed[i][2])

C6_Witness ==
    /\ pc = "proc"
    /\ \E j, k \in 1..Len(out) : out[j].kind = "FAIL" /\ out[k].kind = "REN"

\* C7: undo replay rule.  The entries are replayed newest first; an entry is
\* reverted (new -> old) exactly when the new path exists and the old path
\* does not, otherwise the disk is left as it is; no file is ever replaced.
C7_UndoReplayRule ==
    /\ [](pc = "undo" =>
            \E k \in 0..(Len(log.lines) - 1) :
                entries = Reverse(SubSeq(log.lines, 2, k + 1)))
    /\ [][(pc = "undo" /\ entries # <<>>) =>
            LET f     == Split2(Head(entries))
                old_p == <<f[2]>>
                new_p == <<f[3]>>
            IN  /\ entries' = Tail(entries)
                /\ IF new_p \in DOMAIN disk /\ old_p \notin DOMAIN disk
                   THEN \/ /\ new_p \notin DOMAIN disk'
                           /\ old_p \in DOMAIN disk'
                           /\ disk'[old_p] = disk[new_p]
                           /\ \A q \in DOMAIN disk \ {new_p} :
                                q \in DOMAIN disk' /\ disk'[q] = disk[q]
                        \/ disk' = disk /\ nfail' = nfail + 1
                   ELSE disk' = disk]_vars
    /\ [][pc = "undo" =>
            {disk'[q].id : q \in DOMAIN disk'} = {disk[q].id : q \in DOMAIN disk}]_vars

\* an undo of two chained entries, where only the reverse order restores both
C7_Witness ==
    \E i \in UndoRuns :
        /\ Len(hist[i].out) >= 3
        /\ hist[i].out[1].kind = "REV" /\ hist[i].out[2].kind = "REV"
        /\ hist[i].out[1].new = hist[i].out[2].old

\* C8: undo without effect.  When the log is absent, or force is off and the
\* answer is neither y nor Y, nothing is renamed and the log is left as it is.
C8_UndoWithoutEffect ==
    \A i \in UndoRuns :
        LET r == hist[i]
        IN  (~r.pre_log.exists \/ (~r.force /\ r.resp \notin {<<121>>, <<89>>}))
            => /\ r.post_disk = r.pre_disk
               /\ r.post_log = r.pre_log
               /\ Kinds(r) \subseteq {"NOLOG", "CANCEL"}

C8_Witness ==
    \E i \in UndoRuns :
        /\ hist[i].pre_log.exists /\ Len(hist[i].pre_log.lines) >= 2
        /\ ~hist[i].force /\ hist[i].resp = <<121, 101, 115>>
        /\ hist[i].post_log = hist[i].pre_log

\* C9: undo always completes.  Once the replay has started every line splits
\* into its three fields, every entry is visited, a failed revert included,
\* and the replay ends with the deletion of the log: the log is gone, or the
\* failed deletion is reported and the operation still returns.
C9_UndoCompletes ==
    /\ pc = "undo" => Len(out) + Len(entries) = Len(log.lines) - 1
    /\ pc = "undo" => \A i \in 1..Len(entries) : Len(Split2(entries[i])) = 3
    /\ \A i \in UndoRuns :
         LET r == hist[i]
             n == Len(r.out)
         IN  (r.pre_log.exists /\ (r.force \/ r.resp \in {<<121>>, <<89>>}))
             => /\ n = Len(r.pre_log.lines)
                /\ \A j \in 1..(n - 1) : r.out[j].kind \in {"REV", "REVFAIL", "PASS"}
                /\ \/ r.out[n].kind = "RMLOG" /\ ~r.post_log.exists
                   \/ r.out[n].kind = "RMFAIL" /\ r.post_log = r.pre_log

C9_Witness ==
    \E i \in UndoRuns :
        LET r == hist[i]
        IN  /\ \E j, k \in 1..Len(r.out) :
                 j < k /\ r.out[j].kind = "REVFAIL" /\ r.out[k].kind = "REV"
            /\ ~r.post_log.exists

\* C10: a file whose name is in already_renamed is skipped: it stays where it
\* is, the run logs nothing for it, and it takes no counter slot: each handled
\* file starts from 1 + the number of files handled before it in its bucket.
C10_SkipTakesNoSlot ==
    \A i \in ProcRuns :
        LET r  == hist[i]
            ar == AlreadyRenamed(r.pre_log)
            rens == SelectSeq(r.out, LAMBDA e : e.kind = "REN")
        IN  /\ \A j \in 1..Len(r.out) :
                 LET e == r.out[j]
                 IN  /\ e.kind = "SKIP" =>
                           /\ e.old \in ar
                           /\ e.img \in DOMAIN r.post_disk
                           /\ r.post_disk[e.img] = r.pre_disk[e.img]
                     /\ e.kind \in {"DRY", "REN", "FAIL"} =>
                           /\ e.old \notin ar
                           /\ e.start = 1 + Cardinality({k \in Handled(r) :
                                              k < j /\ r.out[k].dt = e.dt})
            /\ Len(NewLines(r)) = Len(rens)
            /\ \A j \in 1..Len(rens) :
                 NewLines(r)[j] = LogLine(rens[j].old, rens[j].new)

C10_Witness ==
    \E i \in ProcRuns :
        \E j, k \in 1..Len(hist[i].out) :
            /\ j < k
            /\ hist[i].out[j].kind = "SKIP"
            /\ hist[i].out[k].kind \in {"DRY", "REN"}
            /\ hist[i].out[j].dt = hist[i].out[k].dt

\* C11: a rename failure is not fatal.  In a live run the file whose rename
\* failed keeps its path, the run writes one log line per successful rename
\* only, every enumerated image that is not already renamed is still handled,
\* and the run goes on to its end (return True).
\* (a record is appended to hist in the step that returns to idle and is not
\* changed afterwards, so the newest record is looked at in the idle states)
C11_RenameFailureNotFatal ==
    /\ \A j \in 1..Len(out) :
         out[j].kind = "FAIL" =>
            (out[j].img \in DOMAIN disk /\ disk[out[j].img] = op.pre_disk[out[j].img])
    /\ (pc = "idle" /\ hist # <<>> /\ hist[Len(hist)].kind = "proc") =>
         LET r == hist[Len(hist)]
         IN  (~r.dry /\ "NOIMG" \notin Kinds(r)) =>
               /\ {r.out[j].img : j \in Handled(r)} = ToHandle(r)
               /\ Cardinality(Handled(r)) = Cardinality(ToHandle(r))
               /\ \A j \in 1..Len(r.out) :
                    r.out[j].kind = "FAIL" =>
                       /\ r.out[j].img \in DOMAIN r.post_disk
                       /\ r.post_disk[r.out[j].img] = r.pre_disk[r.out[j].img]
               /\ Len(NewLines(r))
                    = Cardinality({j \in 1..Len(r.out) : r.out[j].kind = "REN"})

\* a failed rename followed by a successful one, in a later bucket
C11_Witness ==
    \E i \in ProcRuns :
        \E j, k \in 1..Len(hist[i].out) :
            /\ j < k
            /\ hist[i].out[j].kind = "FAIL"
            /\ hist[i].out[k].kind = "REN"
            /\ hist[i].out[j].dt # hist[i].out[k].dt

\* ---------------------------------------------------------- the age label
\* the label read back: its leading digits, their value, and the unit word
LabelDigits(s) ==
    LET nd == {i \in 1..Len(s) : s[i] \notin 48..57}
    IN  IF nd = {} THEN Len(s) ELSE (CHOOSE i \in nd : \A j \in nd : i <= j) - 1

RECURSIVE DigitsValue(_)
DigitsValue(ds) ==
    IF ds = <<>> THEN 0
    ELSE DigitsValue(SubSeq(ds, 1, Len(ds) - 1)) * 10 + (ds[Len(ds)] - 48)

LabelNumber(s) == DigitsValue(SubSeq(s, 1, LabelDigits(s)))
LabelUnit(s)   == SubSeq(s, LabelDigits(s) + 1, Len(s))

DaysDiff  == Ordinal(age_photo) - Ordinal(age_birth)
MonthsAge ==
    (age_photo.year - age_birth.year) * 12 + (age_photo.month - age_birth.month)
      - (IF age_photo.day < age_birth.day THEN 1 ELSE 0)

\* C12: days branch.  photo < birth gives exactly "01days"; 0 <= days_diff < 28
\* gives two digits of value max(days_diff, 1) followed by "days".
C12_AgeDaysBranch ==
    pc = "age_done" =>
        /\ DaysDiff < 0 => age_label = <<48, 49, 100, 97, 121, 115>>
        /\ (0 <= DaysDiff /\ DaysDiff < 28) =>
              /\ LabelDigits(age_label) = 2
              /\ LabelNumber(age_label) = (IF DaysDiff > 1 THEN DaysDiff ELSE 1)
              /\ LabelUnit(age_label) = <<100, 97, 121, 115>>

\* the photo taken on the day of birth
C12_Witness == pc = "age_done" /\ DaysDiff = 0

\* C13 as stated: from 28 days on, exactly two digits, of value months below
\* twelve months and of value months // 12 from twelve months on, at every age.
C13_TwoDigitMonthsYears ==
    (pc = "age_done" /\ DaysDiff >= 28) =>
        /\ LabelDigits(age_label) = 2
        /\ IF MonthsAge < 12
           THEN /\ LabelNumber(age_label) = MonthsAge
                /\ LabelUnit(age_label) = <<109, 111, 110, 116, 104, 115>>
           ELSE /\ LabelNumber(age_label) = MonthsAge \div 12
                /\ LabelUnit(age_label) = <<121, 101, 97, 114, 115>>

\* C13 amended: the number is padded to two digits and never cut: two digits
\* below 100 years, three digits from 100 to 999 years.
C13_PaddedMonthsYears ==
    (pc = "age_done" /\ DaysDiff >= 28) =>
        IF MonthsAge < 12
        THEN /\ LabelDigits(age_label) = 2
             /\ LabelNumber(age_label) = MonthsAge
             /\ LabelUnit(age_label) = <<109, 111, 110, 116, 104, 115>>
        ELSE /\ LabelDigits(age_label) = (IF MonthsAge \div 12 < 100 THEN 2 ELSE 3)
             /\ LabelNumber(age_label) = MonthsAge \div 12
             /\ LabelUnit(age_label) = <<121, 101, 97, 114, 115>>

\* an age of 100 years or more
C13_Witness == pc = "age_done" /\ DaysDiff >= 28 /\ MonthsAge \div 12 >= 100

\* C20 as stated: the number in the label is at least 1.
C20_LabelNeverZero == pc = "age_done" => LabelNumber(age_label) >= 1

\* --------------------------------------------------------- processing order
\* the lines of a run that stand for a visited file
Visited(r) == {i \in 1..Len(r.out) : r.out[i].kind \in {"SKIP", "DRY", "REN", "FAIL"}}

InBucket(kinds) ==
    {j \in 1..Len(out) : out[j].kind \in kinds /\ out[j].dt = cur_dt}

\* C15 as stated: after k files of the bucket, renamed, printed in a dry run
\* or skipped as already renamed, the counter is k + 1.
C15_CounterCountsEveryFile ==
    (pc = "proc" /\ cur_dt # NoDate) =>
        counter = 1 + Cardinality(InBucket({"SKIP", "DRY", "REN", "FAIL"}))

\* C15 amended: the counter starts at 1 in each bucket and is 1 + the number
\* of files of the bucket that were renamed, printed in a dry run or failed
\* to rename; a skipped file leaves it as it is.
C15_CounterCountsHandledFiles ==
    (pc \in {"proc", "log"} /\ cur_dt # NoDate) =>
        counter = 1 + Cardinality(InBucket({"DRY", "REN", "FAIL"}))

\* one file of the bucket skipped, one handled: two files, counter 2
C15_Witness ==
    /\ pc = "proc" /\ cur_dt # NoDate
    /\ InBucket({"SKIP"}) # {}
    /\ InBucket({"DRY", "REN", "FAIL"}) # {}
    /\ counter = Cardinality(InBucket({"SKIP", "DRY", "REN", "FAIL"}))

\* ------------------------------------------------------ the collision probe
\* C16: for a file that is not skipped the final ID is the smallest k >= the
\* bucket counter whose candidate name does not exist in the file's directory
\* or is the file's own name; the probe leaves the counter as it is, and the
\* counter then advances by 1.
C16_CollisionProbe ==
    /\ [][(pc = "proc" /\ queue # <<>>
             /\ BaseName(Head(queue).img) \notin already_renamed) =>
            LET h == Head(queue)
                c == IF h.dt = cur_dt THEN counter ELSE 1
                e == IF pc' = "log" THEN pending' ELSE out'[Len(out')]
                Free(k) ==
                    LET cand == WithName(h.img, NewName(h.dt, k, BaseName(h.img)))
                    IN  cand \notin DOMAIN disk \/ cand = h.img
            IN  /\ e.img = h.img
                /\ e.start = c
                /\ e.id >= c
                /\ Free(e.id)
                /\ \A k \in c..(e.id - 1) : ~Free(k)
                /\ counter' = (IF pc' = "log" THEN c ELSE c + 1)]_vars
    /\ [][pc = "log" => (pending.start = counter /\ counter' = counter + 1)]_vars

\* a file that already carries a name of the pattern: ID 1 is taken by
\* another file, ID 2 is its own name and is kept
C16_Witness ==
    \E i \in ProcRuns :
        \E j \in Handled(hist[i]) :
            /\ hist[i].out[j].id > hist[i].out[j].start
            /\ hist[i].out[j].new = hist[i].out[j].old

\* ------------------------------------------------------- no file destroyed
\* C17: no file is ever destroyed.  Every step of a run or of an undo that
\* changes the directory moves one file to a path that does not exist at that
\* moment and leaves every other file where it is: the number of files never
\* decreases and no file's content is replaced by another's.
C17_NoFileDestroyed ==
    [][/\ Cardinality(DOMAIN disk') = Cardinality(DOMAIN disk)
       /\ {disk'[q].id : q \in DOMAIN disk'} = {disk[q].id : q \in DOMAIN disk}
       /\ disk' # disk =>
            \E p \in DOMAIN disk : \E q \in DOMAIN disk' \ DOMAIN disk :
                /\ DOMAIN disk' = (DOMAIN disk \ {p}) \cup {q}
                /\ disk'[q] = disk[p]
                /\ \A x \in DOMAIN disk \ {p} : disk'[x] = disk[x]]_vars

\* an undo in which a revert failed and the next entry's old path is taken:
\* the entry is passed over, the file at the old path is not replaced
C17_Witness ==
    \E i \in UndoRuns :
        \E j, k \in 1..Len(hist[i].out) :
            /\ j < k
            /\ hist[i].out[j].kind = "REVFAIL"
            /\ hist[i].out[k].kind = "PASS"
            /\ <<hist[i].out[k].old>> \in DOMAIN hist[i].post_disk
            /\ <<hist[i].out[k].new>> \in DOMAIN hist[i].post_disk
            /\ hist[i].out[k].old # hist[i].out[k].new

\* ------------------------------------------------- dry run and live run
\* the (old name, new name) pairs of the lines of one kind, in order
Pairs(r, kind) ==
    LET es == SelectSeq(r.out, LAMBDA e : e.kind = kind)
    IN  [j \in 1..Len(es) |-> <<es[j].old, es[j].new>>]

\* C18 as stated: the pairs printed by a dry run are exactly the pairs that a
\* live run from the same directory content and log renames and logs when
\* every rename succeeds.
C18_DryRunIsFaithfulPreview ==
    \A i \in ProcRuns :
        (/\ i + 1 \in ProcRuns
         /\ hist[i].dry /\ ~hist[i + 1].dry
         /\ hist[i + 1].pre_disk = hist[i].pre_disk
         /\ hist[i + 1].pre_log = hist[i].pre_log
         /\ Clean(hist[i + 1]))
        => /\ Pairs(hist[i], "DRY") = Pairs(hist[i + 1], "REN")
           /\ \A j \in 1..Len(NewLines(hist[i + 1])) :
                NewLines(hist[i + 1])[j]
                  = LogLine(Pairs(hist[i], "DRY")[j][1], Pairs(hist[i], "DRY")[j][2])

\* C19 as stated: after a live run in which every rename succeeded, a second
\* live run with nothing changed in between leaves the same set of paths.
C19_RerunFixpoint ==
    \A i \in ProcRuns :
        (/\ i + 1 \in ProcRuns
         /\ ~hist[i].dry /\ ~hist[i + 1].dry
         /\ Clean(hist[i]) /\ Clean(hist[i + 1])
         /\ hist[i + 1].pre_disk = hist[i].post_disk
         /\ hist[i + 1].pre_log = hist[i].post_log)
        => DOMAIN hist[i + 1].post_disk = DOMAIN hist[i].post_disk

====
